---- MODULE Spec2Model ----
(***************************************************************************)
(* Model of the medical RAG pipeline (src/medical_rag.py) and of the       *)
(* Streamlit front end that initialises and calls it (src/app.py).         *)
(*                                                                         *)
(* Python strings are modelled as sequences of one-character strings, so   *)
(* that lower(), strip(), re.sub and the "in" substring test are computed  *)
(* character by character.  The four long literals of the source (the      *)
(* farewell, the fallback, the disclaimer and the canned intent responses) *)
(* are abbreviated to short character sequences that keep the facts the    *)
(* code depends on: they are pairwise different and the disclaimer, which  *)
(* starts with a newline, is a suffix of neither the farewell nor the      *)
(* fallback.                                                               *)
(***************************************************************************)
EXTENDS Integers, Sequences, FiniteSets, TLC

VARIABLES
    index,        \* self.index: None, or the vectors held by the flat index
    documents,    \* self.documents
    last,         \* observation of the last completed pipeline operation
    audio_result, \* what the last process_audio_query call met and returned
    norm_in,      \* argument of normalize_query
    norm_out,     \* value returned by normalize_query
    ss,           \* st.session_state of the front end
    app           \* observation of the front end's last script step

vars == <<index, documents, last, audio_result, norm_in, norm_out, ss, app>>

(***************************************************************************)
(* Bounds                                                                  *)
(***************************************************************************)
MaxNormLen == 5
MaxQueryLen == 2
MaxDocs == 2
MaxK == 3
MaxIntents == 2

(***************************************************************************)
(* Python str operations                                                   *)
(***************************************************************************)
UpperChars == <<"A","B","C","D","E","F","G","H","I","J","K","L","M",
                "N","O","P","Q","R","S","T","U","V","W","X","Y","Z">>
LowerChars == <<"a","b","c","d","e","f","g","h","i","j","k","l","m",
                "n","o","p","q","r","s","t","u","v","w","x","y","z">>
Digits == {"0","1","2","3","4","5","6","7","8","9"}

Range(s) == {s[i] : i \in 1..Len(s)}

\* str.lower() on one character
LowerChar(c) ==
    IF \E i \in 1..26 : UpperChars[i] = c
    THEN LowerChars[CHOOSE i \in 1..26 : UpperChars[i] = c]
    ELSE c

\* str.lower()
Lower(s) == [i \in 1..Len(s) |-> LowerChar(s[i])]

\* the regex class \w
IsWord(c) == c \in Range(LowerChars) \cup Range(UpperChars) \cup Digits \cup {"_"}

\* the regex class \s, also what str.strip() removes
IsSpace(c) == c \in {" ", "\t", "\n"}

\* re.sub(r'[^\w\s]', '', s): scan left to right, drop each matching character
RECURSIVE re_sub_nonword(_)
re_sub_nonword(s) ==
    IF s = <<>> THEN <<>>
    ELSE IF IsWord(Head(s)) \/ IsSpace(Head(s))
         THEN <<Head(s)>> \o re_sub_nonword(Tail(s))
         ELSE re_sub_nonword(Tail(s))

RECURSIVE lstrip(_)
lstrip(s) == IF s # <<>> /\ IsSpace(Head(s)) THEN lstrip(Tail(s)) ELSE s

RECURSIVE rstrip(_)
rstrip(s) ==
    IF s # <<>> /\ IsSpace(s[Len(s)]) THEN rstrip(SubSeq(s, 1, Len(s) - 1)) ELSE s

\* str.strip()
strip(s) == rstrip(lstrip(s))

\* Python "t in s" for strings
Contains(s, t) ==
    \E i \in 0..(Len(s) - Len(t)) : SubSeq(s, i + 1, i + Len(t)) = t

EndsWith(s, t) ==
    /\ Len(t) <= Len(s)
    /\ SubSeq(s, Len(s) - Len(t) + 1, Len(s)) = t

\* "\n\n".join(parts)
RECURSIVE join_blank(_)
join_blank(parts) ==
    IF parts = <<>> THEN <<>>
    ELSE IF Len(parts) = 1 THEN parts[1]
    ELSE parts[1] \o <<"\n", "\n">> \o join_blank(Tail(parts))

\* all sequences over S of length at most n
RECURSIVE SeqsUpTo(_, _)
SeqsUpTo(S, n) ==
    IF n = 0 THEN {<<>>}
    ELSE LET shorter == SeqsUpTo(S, n - 1)
         IN shorter \cup {Append(s, c) : s \in shorter, c \in S}

(***************************************************************************)
(* normalize_query                                                         *)
(***************************************************************************)
\* the dict literal misspellings, as a set of <<key, value>> pairs
misspellings == {
    << <<"c","a","n","s","e","r">>, <<"c","a","n","c","e","r">> >>,
    << <<"d","i","a","b","e","t","i","s">>, <<"d","i","a","b","e","t","e","s">> >>,
    << <<"a","r","t","r","i","t","i","s">>, <<"a","r","t","h","r","i","t","i","s">> >>,
    << <<"h","i","g","h","b","l","o","o","d","p","r","e","s","s","u","r","e">>,
       <<"h","y","p","e","r","t","e","n","s","i","o","n">> >>,
    << <<"a","s","m","a">>, <<"a","s","t","h","m","a">> >>,
    << <<"h","a","r","t">>, <<"h","e","a","r","t">> >>,
    << <<"s","t","r","o","k","e">>, <<"s","t","r","o","k","e">> >>,
    << <<"a","l","z","h","e","i","m","e","r","s">>, <<"a","l","z","h","e","i","m","e","r">> >>,
    << <<"h","i","g","h","b","l","o","o","d">>, <<"h","y","p","e","r","t","e","n","s","i","o","n">> >>
}

\* dict.get(key, default)
dict_get(d, key, default) ==
    IF \E p \in d : p[1] = key
    THEN (CHOOSE p \in d : p[1] = key)[2]
    ELSE default

\* a slip normalize_query could have: correcting a misspelling that occurs
\* anywhere in the query instead of looking the whole query up
normalize_query_substring(query) ==
    LET q == re_sub_nonword(Lower(query))
    IN IF \E p \in misspellings : Contains(q, p[1])
       THEN (CHOOSE p \in misspellings : Contains(q, p[1]))[2]
       ELSE q

normalize_query(query) ==
    LET q == re_sub_nonword(Lower(query))
    IN dict_get(misspellings, q, q)

(***************************************************************************)
(* Literals of MedicalRAGPipeline                                          *)
(***************************************************************************)
\* self.exit_patterns (a set literal: the repeated 'sign off' collapses)
exit_patterns == {
    <<"q","u","i","t">>, <<"e","x","i","t">>, <<"b","y","e">>,
    <<"g","o","o","d","b","y","e">>, <<"t","e","r","m","i","n","a","t","e">>,
    <<"e","n","d">>, <<"s","i","g","n"," ","o","f","f">>,
    <<"t","e","r","m","i","n","a","t","e"," ","t","h","e"," ","c","a","l","l">>,
    <<"e","n","d"," ","c","a","l","l">>
}

\* self.medical_disclaimer, "\nDisclaimer: ... treatment." abbreviated
medical_disclaimer == <<"\n", "#">>

\* the farewell returned on an exit request, abbreviated
farewell == <<"~">>

\* the apology returned by the except branch of generate_response, abbreviated
fallback == <<"@">>

(***************************************************************************)
(* Documents and the encoder                                               *)
(***************************************************************************)
\* the pool of Document objects a knowledge file can yield; content per doc
DocContent == <<
    <<"f","l","u">>,
    <<"a","s","t","h","m","a">>,
    <<"h","e","a","r","t">> >>

Docs == 1..Len(DocContent)

\* the document lists create_index is called with: no Document twice
DocLists == {l \in SeqsUpTo(Docs, MaxDocs) : \A i, j \in 1..Len(l) : l[i] = l[j] => i = j}

CharCode(c) ==
    IF \E i \in 1..26 : LowerChars[i] = c
    THEN CHOOSE i \in 1..26 : LowerChars[i] = c
    ELSE 0

RECURSIVE CodeSum(_)
CodeSum(s) == IF s = <<>> THEN 0 ELSE CharCode(Head(s)) + CodeSum(Tail(s))

\* range of the one-dimensional stand-in for the 384-dimensional embedding
EmbMod == 11

\* self.encoder.encode on one text: a deterministic function of the text
encode(text) == CodeSum(text) % EmbMod

\* squared L2 distance of IndexFlatL2
L2(a, b) == (a - b) * (a - b)

\* the distance faiss reports for a missing neighbour (FLT_MAX), label -1
FltMax == 1000

(***************************************************************************)
(* faiss.IndexFlatL2.search and MedicalRAGPipeline.search                  *)
(***************************************************************************)
None == <<>>
Some(v) == <<v>>

\* position (0-based) of the nearest vector among the candidate labels,
\* ties going to the lower label
Nearest(vecs, q, cand) ==
    CHOOSE i \in cand : \A j \in cand :
        \/ L2(vecs[i + 1], q) < L2(vecs[j + 1], q)
        \/ (L2(vecs[i + 1], q) = L2(vecs[j + 1], q) /\ i <= j)

RECURSIVE faiss_take(_, _, _, _)
faiss_take(vecs, q, cand, k) ==
    IF k = 0 THEN <<>>
    ELSE IF cand = {} THEN <<[idx |-> -1, distance |-> FltMax]>> \o faiss_take(vecs, q, cand, k - 1)
    ELSE LET i == Nearest(vecs, q, cand)
         IN <<[idx |-> i, distance |-> L2(vecs[i + 1], q)]>>
            \o faiss_take(vecs, q, cand \ {i}, k - 1)

\* index.search(x, k): always k rows, padded with label -1 when ntotal < k
faiss_search(vecs, q, k) == faiss_take(vecs, q, 0..(Len(vecs) - 1), k)

\* Python list indexing with a possibly negative index: <<ok, value>>
py_index(lst, idx) ==
    IF idx >= 0 /\ idx < Len(lst) THEN <<TRUE, lst[idx + 1]>>
    ELSE IF idx < 0 /\ -idx <= Len(lst) THEN <<TRUE, lst[Len(lst) + idx + 1]>>
    ELSE <<FALSE, 0>>

\* search(query, k) on the pipeline state (idx, docs); enc_ok is whether
\* self.encoder.encode returns.  raised: an exception left search;
\* requested: the k handed to index.search (0 if it was not reached).
search(idx, docs, query, k, enc_ok) ==
    IF ~enc_ok \/ idx = None
    THEN [raised |-> TRUE, results |-> <<>>, requested |-> 0]
    ELSE LET rows == faiss_search(idx[1], encode(query), k)
         IN IF \E r \in 1..Len(rows) : ~py_index(docs, rows[r].idx)[1]
            THEN [raised |-> TRUE, results |-> <<>>, requested |-> k]
            ELSE [raised |-> FALSE,
                  results |-> [r \in 1..Len(rows) |->
                                 [doc |-> py_index(docs, rows[r].idx)[2],
                                  distance |-> rows[r].distance]],
                  requested |-> k]

(***************************************************************************)
(* is_exit_request and generate_response                                   *)
(***************************************************************************)
\* a slip is_exit_request could have: comparing the whole query
is_exit_request_exact(query) == strip(Lower(query)) \in exit_patterns

is_exit_request(query) ==
    LET normalized_query == strip(Lower(query))
    IN \E exit_pattern \in exit_patterns : Contains(normalized_query, exit_pattern)

\* any(pattern.lower() in normalized_query for pattern in intent['patterns'])
intent_matches(intent, normalized_query) ==
    \E p \in 1..Len(intent.patterns) : Contains(normalized_query, Lower(intent.patterns[p]))

\* a slip the scan could have: no break, so the last matching intent is kept
RECURSIVE find_intent_nobreak(_, _, _)
find_intent_nobreak(intents, normalized_query, i) ==
    IF i > Len(intents) THEN 0
    ELSE LET rest == find_intent_nobreak(intents, normalized_query, i + 1)
         IN IF rest # 0 THEN rest
            ELSE IF intent_matches(intents[i], normalized_query) THEN i ELSE 0

\* the for loop with break: position of matching_intent, 0 for None
RECURSIVE find_intent(_, _, _)
find_intent(intents, normalized_query, i) ==
    IF i > Len(intents) THEN 0
    ELSE IF intent_matches(intents[i], normalized_query) THEN i
    ELSE find_intent(intents, normalized_query, i + 1)

\* a slip the merge could have: appending without the containment test
merge_intent_always(final_response, intent_response) ==
    final_response \o <<"\n", "\n">> \o intent_response

\* if intent_response not in final_response: final_response = f"{..}\n\n{..}"
merge_intent(final_response, intent_response) ==
    IF ~Contains(final_response, intent_response)
    THEN final_response \o <<"\n", "\n">> \o intent_response
    ELSE final_response

GenBody(idx, docs, query, intents_data, gen, enc_ok) ==
    LET normalized_query == normalize_query(query)
        sr == search(idx, docs, normalized_query, 3, enc_ok)
        context == join_blank([r \in 1..Len(sr.results) |-> DocContent[sr.results[r].doc]])
        m == find_intent(intents_data.intents, normalized_query, 1)
        caught(sc, gc) == [result |-> fallback, search_calls |-> sc, gen_calls |-> gc,
                           context |-> <<>>, excepted |-> TRUE]
    IN IF sr.raised THEN caught(1, 0)
       ELSE IF ~intents_data.has_key THEN caught(1, 0)
       ELSE IF gen.kind # "text" THEN caught(1, 1)
       ELSE IF m # 0 /\ intents_data.intents[m].responses = <<>> THEN
            [caught(1, 1) EXCEPT !.context = context]
       ELSE LET final_response == strip(gen.text)
                merged == IF m # 0
                          THEN merge_intent(final_response, intents_data.intents[m].responses[1])
                          ELSE final_response
            IN [result |-> merged \o medical_disclaimer, search_calls |-> 1,
                gen_calls |-> 1, context |-> context, excepted |-> FALSE]

\* generate_response(query, intents_data) on the pipeline state (idx, docs).
\* gen is what self.model.generate_content does: "raise", "blocked" (the
\* call returns but response.text raises) or "text" with the text returned.
generate_response(idx, docs, query, intents_data, gen, enc_ok) ==
    IF is_exit_request(query)
    THEN [result |-> farewell, search_calls |-> 0, gen_calls |-> 0,
          context |-> <<>>, excepted |-> FALSE]
    ELSE GenBody(idx, docs, query, intents_data, gen, enc_ok)

(***************************************************************************)
(* create_index                                                            *)
(***************************************************************************)
\* create_index(docs) on the pipeline state (idx, docs0): the pair
\* (self.index, self.documents) it leaves and whether it raised.
\* enc_ok: self.encoder.encode returns; add_ok: the array handed to
\* index.add has shape (n, self.dimension).  encode([]) yields an array of
\* shape (0,), which index.add rejects.
create_index(idx, docs0, docs, enc_ok, add_ok) ==
    IF ~enc_ok THEN [index |-> idx, documents |-> docs0, raised |-> TRUE]
    ELSE LET embeddings == [i \in 1..Len(docs) |-> encode(DocContent[docs[i]])]
         IN IF ~add_ok \/ embeddings = <<>>
            THEN [index |-> Some(<<>>), documents |-> docs0, raised |-> TRUE]
            ELSE [index |-> Some(embeddings), documents |-> docs, raised |-> FALSE]

(***************************************************************************)
(* Inputs                                                                  *)
(***************************************************************************)
QueryChars == {"f", "U"}

SampleQueries == {
    <<"b","y","e">>,
    <<" ","B","Y","E","!"," ">>,
    <<"I"," ","n","e","e","d"," ","t","o"," ","e","n","d"," ","c","a","l","l">>,
    <<"f","r","i","e","n","d">>,
    <<"A","s","m","a","!">>,
    <<"f","l","u">>,
    <<"h","a","r","t"," ","f","l","u">>
}

Queries == SeqsUpTo(QueryChars, MaxQueryLen) \cup SampleQueries

\* the intents a well-formed table is made of
IntentPool == {
    [patterns |-> << <<"F">> >>, responses |-> << <<"r">>, <<"x">> >>],
    [patterns |-> << <<"z">>, <<"u">>, <<"a","s","t","h","m","a">> >>, responses |-> << <<"s">> >>]
}

\* an intent whose list of responses is empty
NoResponseIntent == [patterns |-> << <<"f","l","u">> >>, responses |-> <<>>]

\* intents_data: a dict with the key 'intents', or one without it
IntentTables ==
    {[has_key |-> TRUE, intents |-> t] : t \in SeqsUpTo(IntentPool, MaxIntents)}
    \cup {[has_key |-> TRUE, intents |-> <<NoResponseIntent>>],
          [has_key |-> FALSE, intents |-> <<>>]}

\* what self.model.generate_content(prompt) does
GenOutcomes ==
    {[kind |-> "raise", text |-> <<>>], [kind |-> "blocked", text |-> <<>>]}
    \cup {[kind |-> "text", text |-> t] :
            t \in { <<"g">>, <<" ","g","r","\n">>, <<" ">> }}

NoCall == [op |-> "none", query |-> <<>>, k |-> 0,
           intents_data |-> [has_key |-> FALSE, intents |-> <<>>],
           gen |-> [kind |-> "raise", text |-> <<>>], enc_ok |-> TRUE,
           raised |-> FALSE, results |-> <<>>, requested |-> 0,
           result |-> <<>>, search_calls |-> 0, gen_calls |-> 0,
           context |-> <<>>, excepted |-> FALSE]

(***************************************************************************)
(* The pipeline used through its methods                                   *)
(***************************************************************************)
AppIdle == [phase |-> "unused"]

\* no process_audio_query call has returned
NoAudio == [transcript |-> None, tts |-> "none", kind |-> "none",
            query |-> <<>>, text_response |-> <<>>, audio_response |-> "None"]

InitPipeline ==
    /\ index = None
    /\ documents = <<>>
    /\ audio_result = NoAudio
    /\ last = NoCall

Init ==
    /\ InitPipeline
    /\ norm_in = <<>> /\ norm_out = None
    /\ ss = AppIdle /\ app = AppIdle

CreateIndex ==
    /\ last.op = "none"
    /\ \E docs \in DocLists, enc_ok \in BOOLEAN, add_ok \in BOOLEAN :
        LET r == create_index(index, documents, docs, enc_ok, add_ok)
        IN /\ index' = r.index
           /\ documents' = r.documents
           /\ last' = [NoCall EXCEPT !.op = "create_index", !.raised = r.raised,
                                     !.enc_ok = enc_ok]
           /\ UNCHANGED <<audio_result, norm_in, norm_out, ss, app>>

Search ==
    /\ last.op = "none"
    /\ \E query \in Queries, k \in 1..MaxK, enc_ok \in BOOLEAN :
        LET r == search(index, documents, query, k, enc_ok)
        IN /\ last' = [NoCall EXCEPT !.op = "search", !.query = query, !.k = k,
                                     !.enc_ok = enc_ok, !.raised = r.raised,
                                     !.results = r.results, !.requested = r.requested]
           /\ UNCHANGED <<audio_result, index, documents, norm_in, norm_out, ss, app>>

GenerateResponse ==
    /\ last.op = "none"
    /\ \E query \in Queries, intents_data \in IntentTables, gen \in GenOutcomes,
       enc_ok \in BOOLEAN :
        LET r == generate_response(index, documents, query, intents_data, gen, enc_ok)
        IN /\ last' = [NoCall EXCEPT !.op = "generate_response", !.query = query,
                                     !.intents_data = intents_data, !.gen = gen,
                                     !.enc_ok = enc_ok, !.result = r.result,
                                     !.search_calls = r.search_calls,
                                     !.gen_calls = r.gen_calls,
                                     !.context = r.context, !.excepted = r.excepted]
           /\ UNCHANGED <<audio_result, index, documents, norm_in, norm_out, ss, app>>

\* the caller takes the returned value; the pipeline is ready for the next call
Return ==
    /\ last.op # "none"
    /\ last' = NoCall
    /\ UNCHANGED <<audio_result, index, documents, norm_in, norm_out, ss, app>>

Next == CreateIndex \/ Search \/ GenerateResponse \/ Return

Spec == Init /\ [][Next]_vars

(***************************************************************************)
(* Properties of the pipeline                                              *)
(***************************************************************************)
IsGen == last.op = "generate_response"

\* some exit phrase occurs in the lower-cased, trimmed text
HasExitPhrase(q) == \E p \in exit_patterns : Contains(strip(Lower(q)), p)

Min(S) == CHOOSE x \in S : \A y \in S : x <= y

\* positions of the intents of the last call's table that match its query
Matching ==
    {i \in 1..Len(last.intents_data.intents) :
        intent_matches(last.intents_data.intents[i], normalize_query(last.query))}

\* the trimmed generative answer of the last call
Answer == strip(last.gen.text)

\* (self.index, self.documents) is a pair some create_index call completed
PairConsistent ==
    /\ index # None
    /\ Len(index[1]) = Len(documents)
    /\ \A i \in 1..Len(documents) : index[1][i] = encode(DocContent[documents[i]])

\* C1: after generate_response on a query that is not an exit request, the
\* returned string ends with the medical disclaimer, whatever path was taken.
C1_DisclaimerOnEveryPath ==
    (IsGen /\ ~HasExitPhrase(last.query)) => EndsWith(last.result, medical_disclaimer)

\* C2: generate_response returns instead of raising, and whenever the
\* generative call it made raised or gave no usable text (none at all, or
\* nothing but whitespace), what it returns is the fallback string.
C2_FallbackOnGenerationFailure ==
    (IsGen /\ last.gen_calls = 1 /\ (last.gen.kind # "text" \/ Answer = <<>>))
        => (~last.raised /\ last.result = fallback)

\* C3: a query containing an exit phrase gets exactly the farewell, with no
\* disclaimer, and neither search nor the generative model is invoked.
C3_ExitShortCircuit ==
    (IsGen /\ HasExitPhrase(last.query))
        => /\ last.result = farewell
           /\ last.search_calls = 0
           /\ last.gen_calls = 0

C3_Witness ==
    /\ IsGen
    /\ last.query = <<"I"," ","n","e","e","d"," ","t","o"," ","e","n","d"," ","c","a","l","l">>
    /\ last.gen.kind = "text"
    /\ index # None
    /\ last.result = farewell

\* C4: search(query, k) on an index built from n documents asks the index
\* for at most n neighbours and returns min(k, n) results, each a distinct
\* document, in ascending order of distance.
C4_SearchClamped ==
    (last.op = "search" /\ last.enc_ok /\ PairConsistent /\ Len(documents) >= 1)
        => LET n == Len(documents)
               res == last.results
           IN /\ ~last.raised
              /\ last.requested <= n
              /\ Len(res) = (IF last.k < n THEN last.k ELSE n)
              /\ \A i, j \in 1..Len(res) : res[i].doc = res[j].doc => i = j
              /\ \A i \in 1..(Len(res) - 1) : res[i].distance <= res[i + 1].distance

\* C5: in every state the index, once there is one, holds exactly the
\* vectors of self.documents, position by position.
C5_IndexDocumentsAtomic == index # None => PairConsistent

\* C6: when the index was never built, is empty, or the encoder raises in
\* search, generate_response on a non-exit query still calls the generative
\* model, with an empty context, and returns its answer with the disclaimer.
C6_EmptyContextProceeds ==
    (/\ IsGen /\ ~HasExitPhrase(last.query)
     /\ (index = None \/ index = Some(<<>>) \/ ~last.enc_ok)
     /\ last.intents_data.has_key
     /\ \A i \in 1..Len(last.intents_data.intents) :
            last.intents_data.intents[i].responses # <<>>
     /\ last.gen.kind = "text" /\ Answer # <<>>)
        => /\ last.context = <<>>
           /\ last.gen_calls = 1
           /\ last.result # fallback
           /\ EndsWith(last.result, medical_disclaimer)

\* C8: the intent generate_response uses is the matching intent of lowest
\* table position: the output is the answer, then nothing or that intent's
\* first response, then the disclaimer; no later intent's text is appended.
C8_FirstMatchWins ==
    (IsGen /\ ~HasExitPhrase(last.query) /\ ~last.excepted /\ Matching # {})
        => LET first == last.intents_data.intents[Min(Matching)].responses[1]
           IN last.result \in
                {Answer \o medical_disclaimer,
                 Answer \o <<"\n", "\n">> \o first \o medical_disclaimer}

C8_Witness ==
    /\ IsGen /\ ~HasExitPhrase(last.query) /\ ~last.excepted
    /\ \E i, j \in Matching :
         /\ i < j
         /\ last.intents_data.intents[i].responses # <<>>
         /\ last.intents_data.intents[j].responses # <<>>
         /\ last.intents_data.intents[i].responses[1] # last.intents_data.intents[j].responses[1]
         /\ last.result = Answer \o <<"\n", "\n">> \o last.intents_data.intents[i].responses[1]
                            \o medical_disclaimer

\* C9: with a matched intent, if the trimmed answer contains the intent's
\* first response the output is the answer and the disclaimer; otherwise the
\* response is appended once, after a blank line.
C9_Deduplication ==
    (IsGen /\ ~HasExitPhrase(last.query) /\ ~last.excepted /\ Matching # {})
        => LET first == last.intents_data.intents[Min(Matching)].responses[1]
           IN IF Contains(Answer, first)
              THEN last.result = Answer \o medical_disclaimer
              ELSE last.result = Answer \o <<"\n", "\n">> \o first \o medical_disclaimer

C9_Witness ==
    /\ IsGen /\ ~HasExitPhrase(last.query) /\ ~last.excepted /\ Matching # {}
    /\ Answer # <<>>
    /\ Contains(Answer, last.intents_data.intents[Min(Matching)].responses[1])
    /\ last.result = Answer \o medical_disclaimer

(***************************************************************************)
(* normalize_query as a function of its argument                           *)
(***************************************************************************)
NormChars == {"a", "s", "m", "A", "?", " "}

SampleRaw == {
    <<"D","i","a","b","e","t","i","s","?","!">>,
    <<"I"," ","h","a","v","e"," ","a"," ","h","e","a","d","a","c","h","e">>,
    <<"h","a","r","t"," ","a","t","t","a","c","k">>,
    <<"H","i","g","h","-","B","l","o","o","d">>,
    <<"s","t","r","o","k","e","_">>
} \cup {p[1] : p \in misspellings}

RawInputs == SeqsUpTo(NormChars, MaxNormLen) \cup SampleRaw

InitNorm ==
    /\ InitPipeline
    /\ norm_in \in RawInputs /\ norm_out = None
    /\ ss = AppIdle /\ app = AppIdle

Normalize ==
    /\ norm_out = None
    /\ norm_out' = Some(normalize_query(norm_in))
    /\ UNCHANGED <<audio_result, index, documents, last, norm_in, ss, app>>

NextNorm == Normalize

SpecNorm == InitNorm /\ [][NextNorm]_vars

\* raw lower-cased, keeping only word characters and white space
Canonical(raw) == SelectSeq(Lower(raw), LAMBDA c : IsWord(c) \/ IsSpace(c))

\* C10: normalize_query(raw) is T[c] when the canonical form c of raw is a
\* key of the misspelling table T and c otherwise; a misspelling inside a
\* longer query is not corrected.
C10_NormalizeExactLookup ==
    norm_out # None =>
        LET c == Canonical(norm_in)
        IN /\ \A p \in misspellings : c = p[1] => norm_out[1] = p[2]
           /\ (\A p \in misspellings : c # p[1]) => norm_out[1] = c
           /\ norm_in = <<"D","i","a","b","e","t","i","s","?","!">>
                => norm_out[1] = <<"d","i","a","b","e","t","e","s">>
           /\ norm_in = <<"I"," ","h","a","v","e"," ","a"," ","h","e","a","d","a","c","h","e">>
                => norm_out[1] = <<"i"," ","h","a","v","e"," ","a"," ","h","e","a","d","a","c","h","e">>

C10_Witness ==
    /\ norm_in = <<"D","i","a","b","e","t","i","s","?","!">>
    /\ norm_out = Some(<<"d","i","a","b","e","t","e","s">>)

(***************************************************************************)
(* The Streamlit script (src/app.py): one action per script run            *)
(***************************************************************************)
\* st.session_state of a fresh browser session; load_failed is a history
\* flag: load_diseases_data or load_intents_data raised in this session
FreshSession ==
    [phase |-> "session",
     audio_handler |-> FALSE,   \* key 'audio_handler' is set
     pipeline |-> FALSE,        \* key 'pipeline' is set
     intents_data |-> FALSE,    \* key 'intents_data' is set
     index_built |-> FALSE,     \* pipeline.create_index completed
     messages |-> FALSE,        \* key 'messages' is set
     n_messages |-> 0,          \* len(st.session_state.messages)
     user_input |-> FALSE,      \* the first text box holds text
     load_failed |-> FALSE]

LoadOutcomes == {"ok", "FileNotFoundError", "other"}

\* a slip initialize_session_state could have: the intents are loaded and
\* stored before the diseases file is read
initialize_session_state_intents_first(s, api_key, d_out, i_out, c_ok) ==
    LET s1 == [s EXCEPT !.audio_handler = TRUE]
        s2 == [s1 EXCEPT !.pipeline = TRUE]
        defaults(t) == [t EXCEPT !.messages = TRUE]
        failed(t) == [t EXCEPT !.load_failed = TRUE]
        s3 == [s2 EXCEPT !.intents_data = TRUE]
    IN IF s.pipeline THEN [s |-> defaults(s1), raised |-> FALSE]
       ELSE IF ~api_key THEN [s |-> s1, raised |-> FALSE]
       ELSE IF i_out = "other" THEN [s |-> failed(s2), raised |-> TRUE]
       ELSE IF i_out = "FileNotFoundError" THEN [s |-> defaults(failed(s2)), raised |-> FALSE]
       ELSE IF d_out = "other" THEN [s |-> failed(s3), raised |-> TRUE]
       ELSE IF d_out = "FileNotFoundError" THEN [s |-> defaults(failed(s3)), raised |-> FALSE]
       ELSE IF ~c_ok THEN [s |-> s3, raised |-> TRUE]
       ELSE [s |-> defaults([s3 EXCEPT !.index_built = TRUE]), raised |-> FALSE]

\* initialize_session_state().  api_key: API_KEY is set; d_out, i_out: what
\* load_diseases_data and load_intents_data do; c_ok: create_index returns.
\* raised: an exception other than FileNotFoundError left the function.
initialize_session_state(s, api_key, d_out, i_out, c_ok) ==
    LET s1 == [s EXCEPT !.audio_handler = TRUE]
        s2 == [s1 EXCEPT !.pipeline = TRUE]
        defaults(t) == [t EXCEPT !.messages = TRUE]
        failed(t) == [t EXCEPT !.load_failed = TRUE]
        s3 == [s2 EXCEPT !.intents_data = TRUE]
    IN IF s.pipeline THEN [s |-> defaults(s1), raised |-> FALSE]
       ELSE IF ~api_key THEN [s |-> s1, raised |-> FALSE]
       ELSE IF d_out = "other" THEN [s |-> failed(s2), raised |-> TRUE]
       ELSE IF d_out = "FileNotFoundError" THEN [s |-> defaults(failed(s2)), raised |-> FALSE]
       ELSE IF i_out = "other" THEN [s |-> failed(s2), raised |-> TRUE]
       ELSE IF i_out = "FileNotFoundError" THEN [s |-> defaults(failed(s2)), raised |-> FALSE]
       ELSE IF ~c_ok THEN [s |-> s3, raised |-> TRUE]
       ELSE [s |-> defaults([s3 EXCEPT !.index_built = TRUE]), raised |-> FALSE]

\* outcome of a script run: the session state it leaves, where it stopped,
\* and whether generate_response was called (gen_half: on a pipeline whose
\* index was not built)
Outcome(s, stop, gen) ==
    [s |-> s, stop |-> stop, gen_called |-> gen, gen_half |-> gen /\ ~s.index_built]

\* process_audio_query as called from main (both audio branches)
AudioBranch(s, audio, transcribed) ==
    IF ~s.intents_data THEN Outcome(s, "AttributeError intents_data", FALSE)
    ELSE IF ~audio THEN Outcome(s, "end", FALSE)
    ELSE IF ~transcribed THEN Outcome(s, "TypeError result", FALSE)
    ELSE Outcome([s EXCEPT !.n_messages = @ + 2], "rerun", TRUE)

\* main(), after set_page_config and the style block
main(s0, event, env, d_out, i_out, c_ok, recorded, transcribed) ==
    LET r == initialize_session_state(s0, env.api_key, d_out, i_out, c_ok)
        s == r.s
    IN IF r.raised THEN Outcome(s, "initialize raised", FALSE)
       ELSE IF ~s.messages THEN Outcome(s, "AttributeError messages", FALSE)
       ELSE IF event = "main_text" THEN
            LET s1 == [s EXCEPT !.n_messages = @ + 1]
            IN IF ~s1.pipeline THEN Outcome(s1, "AttributeError pipeline", FALSE)
               ELSE IF ~s1.intents_data THEN Outcome(s1, "AttributeError intents_data", FALSE)
               ELSE LET s2 == [s1 EXCEPT !.n_messages = @ + 1]
                    IN IF ~env.audio THEN Outcome(s2, "AttributeError text_to_speech", TRUE)
                       ELSE Outcome(s2, "rerun", TRUE)
       ELSE IF event = "record" THEN
            IF ~env.audio THEN Outcome(s, "AttributeError record_audio", FALSE)
            ELSE IF ~recorded THEN Outcome(s, "end", FALSE)
            ELSE AudioBranch(s, env.audio, transcribed)
       ELSE IF event = "upload" THEN AudioBranch(s, env.audio, transcribed)
       ELSE IF event = "clear" THEN Outcome([s EXCEPT !.n_messages = 0], "rerun", FALSE)
       ELSE Outcome(s, "end", FALSE)

\* one run of the script, top to bottom, for the widget event that caused it
ScriptRun(s0, event, env, d_out, i_out, c_ok, recorded, transcribed) ==
    LET r == initialize_session_state(s0, env.api_key, d_out, i_out, c_ok)
        s == [r.s EXCEPT !.user_input = @ \/ event = "top_text"]
    IN IF r.raised THEN Outcome(r.s, "initialize raised", FALSE)
       ELSE IF s.user_input /\ s.pipeline THEN Outcome(s, "AttributeError query", FALSE)
       ELSE IF ~s.messages THEN Outcome(s, "AttributeError messages", FALSE)
       ELSE IF s.n_messages > 0 THEN Outcome(s, "KeyError user", FALSE)
       ELSE main(s, event, env, d_out, i_out, c_ok, recorded, transcribed)

InitApp ==
    /\ InitPipeline
    /\ norm_in = <<>> /\ norm_out = None
    /\ ss = FreshSession
    /\ app \in {[phase |-> "app", env |-> [api_key |-> k, audio |-> a], event |-> "start",
                 d_out |-> "ok", i_out |-> "ok", c_ok |-> TRUE,
                 stop |-> "end", gen_called |-> FALSE, gen_half |-> FALSE]
                   : k \in BOOLEAN, a \in BOOLEAN}

\* what a script run leaves to be observed; the load outcomes are recorded
\* only for the run that performed the loads
Observed(event, o, d_out, i_out, c_ok) ==
    LET loads == ~ss.pipeline /\ app.env.api_key
    IN [app EXCEPT !.event = event, !.stop = o.stop,
                   !.d_out = IF loads THEN d_out ELSE "ok",
                   !.i_out = IF loads THEN i_out ELSE "ok",
                   !.c_ok = IF loads THEN c_ok ELSE TRUE,
                   !.gen_called = o.gen_called, !.gen_half = o.gen_half]

\* a rerun without a widget event (the first page load, or after st.rerun)
RunRerun ==
    /\ \E d_out \in LoadOutcomes, i_out \in LoadOutcomes, c_ok \in BOOLEAN,
          recorded \in BOOLEAN, transcribed \in BOOLEAN :
        LET o == ScriptRun(ss, "none", app.env, d_out, i_out, c_ok, recorded, transcribed)
        IN /\ ss' = o.s
           /\ app' = Observed("none", o, d_out, i_out, c_ok)
           /\ UNCHANGED <<audio_result, index, documents, last, norm_in, norm_out>>

\* text entered in the first text box
RunTopText ==
    /\ ss.audio_handler
    /\ \E d_out \in LoadOutcomes, i_out \in LoadOutcomes, c_ok \in BOOLEAN,
          recorded \in BOOLEAN, transcribed \in BOOLEAN :
        LET o == ScriptRun(ss, "top_text", app.env, d_out, i_out, c_ok, recorded, transcribed)
        IN /\ ss' = o.s
           /\ app' = Observed("top_text", o, d_out, i_out, c_ok)
           /\ UNCHANGED <<audio_result, index, documents, last, norm_in, norm_out>>

\* a question submitted in main's text box
RunMainText ==
    /\ ss.audio_handler
    /\ \E d_out \in LoadOutcomes, i_out \in LoadOutcomes, c_ok \in BOOLEAN,
          recorded \in BOOLEAN, transcribed \in BOOLEAN :
        LET o == ScriptRun(ss, "main_text", app.env, d_out, i_out, c_ok, recorded, transcribed)
        IN /\ ss' = o.s
           /\ app' = Observed("main_text", o, d_out, i_out, c_ok)
           /\ UNCHANGED <<audio_result, index, documents, last, norm_in, norm_out>>

\* the Record Audio button
RunRecord ==
    /\ ss.audio_handler
    /\ \E d_out \in LoadOutcomes, i_out \in LoadOutcomes, c_ok \in BOOLEAN,
          recorded \in BOOLEAN, transcribed \in BOOLEAN :
        LET o == ScriptRun(ss, "record", app.env, d_out, i_out, c_ok, recorded, transcribed)
        IN /\ ss' = o.s
           /\ app' = Observed("record", o, d_out, i_out, c_ok)
           /\ UNCHANGED <<audio_result, index, documents, last, norm_in, norm_out>>

\* the Process Audio button on an uploaded file
RunUpload ==
    /\ ss.audio_handler
    /\ \E d_out \in LoadOutcomes, i_out \in LoadOutcomes, c_ok \in BOOLEAN,
          recorded \in BOOLEAN, transcribed \in BOOLEAN :
        LET o == ScriptRun(ss, "upload", app.env, d_out, i_out, c_ok, recorded, transcribed)
        IN /\ ss' = o.s
           /\ app' = Observed("upload", o, d_out, i_out, c_ok)
           /\ UNCHANGED <<audio_result, index, documents, last, norm_in, norm_out>>

\* the Clear Chat button
RunClear ==
    /\ ss.audio_handler
    /\ \E d_out \in LoadOutcomes, i_out \in LoadOutcomes, c_ok \in BOOLEAN,
          recorded \in BOOLEAN, transcribed \in BOOLEAN :
        LET o == ScriptRun(ss, "clear", app.env, d_out, i_out, c_ok, recorded, transcribed)
        IN /\ ss' = o.s
           /\ app' = Observed("clear", o, d_out, i_out, c_ok)
           /\ UNCHANGED <<audio_result, index, documents, last, norm_in, norm_out>>

NextApp == RunRerun \/ RunTopText \/ RunMainText \/ RunRecord \/ RunUpload \/ RunClear

SpecApp == InitApp /\ [][NextApp]_vars

TtsOutcomes == {"ok", "gtts", "makedirs"}

\* text_to_speech(text): os.makedirs stands before the try; only gTTS and
\* tts.save are inside it
text_to_speech(tts) ==
    IF tts = "makedirs" THEN [raised |-> TRUE, file |-> "None"]
    ELSE IF tts = "gtts" THEN [raised |-> FALSE, file |-> "None"]
    ELSE [raised |-> FALSE, file |-> "file"]

\* what audio_handler.transcribe_audio returns: None (it catches its own
\* exceptions) or the recognised text
Transcripts == {None} \cup {Some(q) : q \in SampleQueries \cup {<<>>}}

\* process_audio_query(audio_handler, audio_file, intents_data): kind is the
\* shape of the value returned: the dict, the (None, message) tuple or None
process_audio_query(idx, docs, transcript, intents_data, gen, enc_ok, tts) ==
    IF transcript = None \/ transcript = Some(<<>>)
    THEN [NoAudio EXCEPT !.transcript = transcript, !.tts = tts, !.kind = "tuple"]
    ELSE LET query == transcript[1]
             text_response == generate_response(idx, docs, query, intents_data, gen, enc_ok).result
             audio_response == text_to_speech(tts)
         IN IF audio_response.raised
            THEN [NoAudio EXCEPT !.transcript = transcript, !.tts = tts, !.kind = "None"]
            ELSE [transcript |-> transcript, tts |-> tts, kind |-> "dict",
                  query |-> query, text_response |-> text_response,
                  audio_response |-> audio_response.file]

ProcessAudioQuery ==
    /\ last.op = "none"
    /\ \E transcript \in Transcripts, intents_data \in IntentTables, gen \in GenOutcomes,
          enc_ok \in BOOLEAN, tts \in TtsOutcomes :
        /\ audio_result' = process_audio_query(index, documents, transcript, intents_data,
                                        gen, enc_ok, tts)
        /\ last' = [NoCall EXCEPT !.op = "process_audio_query",
                                  !.intents_data = intents_data, !.gen = gen,
                                  !.enc_ok = enc_ok]
        /\ UNCHANGED <<index, documents, norm_in, norm_out, ss, app>>

\* the caller takes the value process_audio_query returned
ReturnAudio ==
    /\ last.op # "none"
    /\ last' = NoCall
    /\ audio_result' = NoAudio
    /\ UNCHANGED <<index, documents, norm_in, norm_out, ss, app>>

NextAudio == CreateIndex \/ ProcessAudioQuery \/ ReturnAudio

SpecAudio == Init /\ [][NextAudio]_vars

\* C11: when transcription gave a non-empty query, process_audio_query
\* returns the dict carrying the text generate_response returned for it,
\* whether text_to_speech wrote a file, returned None or raised.
C11_TextSurvivesSynthesisFailure ==
    (/\ last.op = "process_audio_query"
     /\ audio_result.transcript # None /\ audio_result.transcript # Some(<<>>))
        => /\ audio_result.kind = "dict"
           /\ audio_result.query = audio_result.transcript[1]
           /\ audio_result.text_response =
                generate_response(index, documents, audio_result.transcript[1],
                                  last.intents_data, last.gen, last.enc_ok).result

====
